---- MODULE Spec2Model ----
(***************************************************************************)
(* Cityscapes paired-image data preparation and loading.                   *)
(*                                                                         *)
(*   src/src/data/prepare_cityscapes.py  the Splitter (collect_files,      *)
(*                                       split_and_save, process_dataset,  *)
(*                                       write_split_file, main)           *)
(*   src/src/data/dataset.py             the Dataset Accessor              *)
(*   src/src/data/transforms.py          the paired transform              *)
(*                                                                         *)
(* Spec  : a raw directory and a processed directory in any prior state,   *)
(*         runs of the preprocessing command over them, and a Dataset      *)
(*         Accessor reading what a completed run left.                     *)
(* SpecT : calls of the function build_transform returns, over its         *)
(*         configurations and input image sizes.                           *)
(*                                                                         *)
(* File names are sequences of character codes, so that sorted(), Path.name*)
(* and Path.stem are computed on the characters as Python computes them.   *)
(***************************************************************************)
EXTENDS Integers, Sequences, FiniteSets, TLC

VARIABLES
    rawDirs,    \* the split directories that exist under raw_dir
    rawFiles,   \* the *.jpg files under raw_dir, as <<split, name>>
    rawWidth,   \* rawFiles -> the image's width in pixels
    disk,       \* the processed photo/label files that exist, as paths
    dirs,       \* the processed directories that exist, as <<split, kind>>
    index,      \* the split index file: whether it exists, and split -> names
    overwrite,  \* main's --overwrite flag for the current run
    pc,         \* main's position: start, split, write, done, failed
    splits,     \* collect_files' result held by process_dataset
    todo,       \* the (split, name) pairs process_dataset has yet to visit
    last,       \* what the latest split_and_save call did
    err,        \* the error that ended the current run, or "none"
    index0,     \* the split index file as it was when the current run began
    wroteRun,   \* the processed files saved so far by the current run
    prevRet,    \* the mapping the previous run of process_dataset returned
    runs,       \* runs of the command started so far
    acc,        \* the Dataset Accessor: NoAcc or [split, files]
    got,        \* the latest indexed access and its result
    tcfg,       \* build_transform's arguments
    tin,        \* the size <<w, h>> of the two input images
    tpc,        \* the transform call's position
    label,      \* the label image: size, crop box, flipped
    photo,      \* the photo image: size, crop box, flipped
    cropDraws,  \* calls of RandomCrop.get_params in this transform call
    flipDraws   \* calls of random.random in this transform call

prepVars == <<rawDirs, rawFiles, rawWidth, disk, dirs, index, overwrite, pc,
              splits, todo, last, err, index0, wroteRun, prevRet, runs, acc,
              got>>
transVars == <<tcfg, tin, tpc, label, photo, cropDraws, flipDraws>>
vars == <<rawDirs, rawFiles, rawWidth, disk, dirs, index, overwrite, pc,
          splits, todo, last, err, index0, wroteRun, prevRet, runs, acc,
          got, tcfg, tin, tpc, label, photo, cropDraws, flipDraws>>

----------------------------------------------------------------------------
(* Bounds *)

\* How many of the candidate raw files (SourceAt(1), SourceAt(2), ...) may
\* exist.
MaxFiles == 3
\* Runs of the preprocessing command in one behaviour.
MaxRuns == 2
\* Indexed access is tried for every idx in -MaxIdx .. MaxIdx.
MaxIdx == 3

----------------------------------------------------------------------------
(* File names *)

\* ".jpg", the suffix collect_files globs for.
JpgSuffix == <<46, 106, 112, 103>>

\* The stems "2", "10", "1" of the candidate raw files.
StemList == << <<50>>, <<49, 48>>, <<49>> >>

SplitNames == <<"train", "val">>

\* Candidate raw files, train and val alternating: train/2.jpg, val/2.jpg,
\* train/10.jpg, val/10.jpg, train/1.jpg, val/1.jpg.
SourceAt(k) == << SplitNames[2 - (k % 2)], StemList[(k + 1) \div 2] \o JpgSuffix >>

Universe == { SourceAt(k) : k \in 1..MaxFiles }

\* Widths a raw image may have: one even, one odd.
Widths == {4, 5}

RECURSIVE LastDot(_, _)
\* The position of the last "." of a name at or before i, 0 if none.
LastDot(name, i) ==
    IF i = 0 THEN 0
    ELSE IF name[i] = 46 THEN i
    ELSE LastDot(name, i - 1)

\* Path(name).stem: the name without its last suffix; a name whose only dot
\* leads it, or that has none, is its own stem.
Stem(name) ==
    LET d == LastDot(name, Len(name))
    IN  IF d <= 1 \/ d = Len(name) THEN name ELSE SubSeq(name, 1, d - 1)

RECURSIVE LexLess(_, _)
\* Python's str ordering: by the first differing character, a proper prefix
\* first.
LexLess(a, b) ==
    IF a = <<>> THEN b # <<>>
    ELSE IF b = <<>> THEN FALSE
    ELSE IF a[1] # b[1] THEN a[1] < b[1]
    ELSE LexLess(Tail(a), Tail(b))

\* Variant of SortedSeq: descending order.
RECURSIVE DescendingSeq(_)
DescendingSeq(S) ==
    IF S = {} THEN <<>>
    ELSE LET m == CHOOSE x \in S : \A y \in S : x = y \/ LexLess(y, x)
         IN  <<m>> \o DescendingSeq(S \ {m})

RECURSIVE SortedSeq(_)
\* sorted(...) of the paths of one directory: ascending by file name.
SortedSeq(S) ==
    IF S = {} THEN <<>>
    ELSE LET m == CHOOSE x \in S : \A y \in S : x = y \/ LexLess(x, y)
         IN  <<m>> \o SortedSeq(S \ {m})

\* {out_dir}/{split}/photo/{stem}_photo.jpg
PhotoPath(split, stem) == <<split, "photo", stem>>
\* {out_dir}/{split}/label/{stem}_label.png
LabelPath(split, stem) == <<split, "label", stem>>

ProcPaths ==
    UNION { { PhotoPath(f[1], Stem(f[2])), LabelPath(f[1], Stem(f[2])) } : f \in Universe }

Parent(path) == <<path[1], path[2]>>

NoAcc == [split |-> "none", files |-> <<>>]
NoCall == [outcome |-> "none", split |-> "none", name |-> <<>>,
           prePhoto |-> FALSE, preLabel |-> FALSE, preDirs |-> {},
           wrote |-> {}, opened |-> FALSE]
NoGot == [kind |-> "none", idx |-> 0, name |-> <<>>]
NoRet == [s \in {"train", "val"} |-> <<>>]
NoFile == [exists |-> FALSE, data |-> NoRet]

----------------------------------------------------------------------------
(* The Splitter: prepare_cityscapes.py *)

NamesIn(split) == { f[2] : f \in { g \in rawFiles : g[1] = split } }

\* collect_files' result for one split: split_dir.glob("*.jpg"), sorted.
CollectFiles(split) ==
    LET names == SortedSeq(NamesIn(split))
    IN  [i \in 1..Len(names) |-> <<split, names[i]>>]

\* collect_files raises FileNotFoundError for the first split, train before
\* val, whose directory is missing or holds no *.jpg.
CollectFails ==
    \E s \in {"train", "val"} : s \notin rawDirs \/ NamesIn(s) = {}

\* The order process_dataset visits the files in: splits.items() is train,
\* then val, each in collect_files' order.
VisitOrder(m) == m["train"] \o m["val"]

\* Variant of SkipCond: skips when either destination exists.
SkipCondEither(ow, photoExists, labelExists) ==
    ~ow /\ (photoExists \/ labelExists)

\* Variant of SkipCond: never skips.
SkipCondNever(ow, photoExists, labelExists) == FALSE

\* if not overwrite and photo_path.exists() and label_path.exists(): return
SkipCond(ow, photoExists, labelExists) ==
    ~ow /\ photoExists /\ labelExists

\* Variant of WidthOK: no width check.
WidthOKAlways(width) == TRUE

\* if width % 2 != 0: raise ValueError
WidthOK(width) == width % 2 = 0

\* Variant of SavedPaths: the label is not saved.
SavedPathsPhotoOnly(split, stem) == { PhotoPath(split, stem) }

\* photo.save(photo_path, ...); label.save(label_path, ...)
SavedPaths(split, stem) == { PhotoPath(split, stem), LabelPath(split, stem) }

\* Every way one call split_and_save(img_path, photo_path, label_path,
\* overwrite) can end, with the processed files and directories it leaves.
\* A save can fail with an I/O error; the file it was writing is then left
\* as it was or left behind, depending on the image library.
SplitAndSave(split, name, ow, d, ds) ==
    LET stem == Stem(name)
        pp == PhotoPath(split, stem)
        lp == LabelPath(split, stem)
        made == ds \cup { Parent(pp), Parent(lp) }
    IN  IF SkipCond(ow, pp \in d, lp \in d)
        THEN { [outcome |-> "skipped", disk |-> d, dirs |-> ds, wrote |-> {},
                opened |-> FALSE] }
        ELSE IF ~WidthOK(rawWidth[<<split, name>>])
        THEN { [outcome |-> "rejected", disk |-> d, dirs |-> ds, wrote |-> {},
                opened |-> TRUE] }
        ELSE { [outcome |-> "ok", disk |-> d \cup SavedPaths(split, stem),
                dirs |-> made, wrote |-> SavedPaths(split, stem),
                opened |-> TRUE] }
             \cup { [outcome |-> "photo_failed", disk |-> x, dirs |-> made,
                     wrote |-> {}, opened |-> TRUE] : x \in { d, d \cup {pp} } }
             \cup { [outcome |-> "label_failed", disk |-> x, dirs |-> made,
                     wrote |-> {pp}, opened |-> TRUE]
                    : x \in { d \cup {pp}, d \cup {pp, lp} } }

\* payload = {k: [p.name for p in v] for k, v in splits.items()}
Payload(m) == [s \in DOMAIN m |-> [i \in 1..Len(m[s]) |-> m[s][i][2]]]

\* main, line 115: process_dataset begins with collect_files.
CollectStep ==
    /\ pc = "start"
    /\ IF CollectFails
       THEN /\ pc' = "failed"
            /\ err' = "FileNotFoundError"
            /\ UNCHANGED <<splits, todo>>
       ELSE /\ splits' = [s \in {"train", "val"} |-> CollectFiles(s)]
            /\ todo' = VisitOrder([s \in {"train", "val"} |-> CollectFiles(s)])
            /\ pc' = "split"
            /\ err' = err
    /\ UNCHANGED <<rawDirs, rawFiles, rawWidth, disk, dirs, index, overwrite,
                   last, index0, wroteRun, prevRet, runs, acc, got>>
    /\ UNCHANGED transVars

\* process_dataset's loop body: one split_and_save call.
SplitStep ==
    /\ pc = "split"
    /\ todo # <<>>
    /\ LET split == Head(todo)[1]
           name == Head(todo)[2]
           stem == Stem(name)
       IN  \E r \in SplitAndSave(split, name, overwrite, disk, dirs) :
               /\ disk' = r.disk
               /\ dirs' = r.dirs
               /\ wroteRun' = wroteRun \cup r.wrote
               /\ last' = [outcome |-> r.outcome, split |-> split, name |-> name,
                           prePhoto |-> PhotoPath(split, stem) \in disk,
                           preLabel |-> LabelPath(split, stem) \in disk,
                           preDirs |-> dirs,
                           wrote |-> r.wrote, opened |-> r.opened]
               /\ IF r.outcome \in {"ok", "skipped"}
                  THEN /\ todo' = Tail(todo)
                       /\ UNCHANGED <<pc, err>>
                  ELSE /\ pc' = "failed"
                       /\ err' = IF r.outcome = "rejected" THEN "ValueError" ELSE "OSError"
                       /\ todo' = todo
    /\ UNCHANGED <<rawDirs, rawFiles, rawWidth, index, overwrite, splits,
                   index0, prevRet, runs, acc, got>>
    /\ UNCHANGED transVars

\* Variant of ProcessReturn: returns from inside the loop.
ProcessReturnEarly ==
    /\ pc = "split"
    /\ pc' = "write"
    /\ UNCHANGED <<rawDirs, rawFiles, rawWidth, disk, dirs, index, overwrite,
                   splits, todo, last, err, index0, wroteRun, prevRet, runs, acc,
                   got>>
    /\ UNCHANGED transVars

\* process_dataset returns splits once the loops are exhausted.
ProcessReturn ==
    /\ pc = "split"
    /\ todo = <<>>
    /\ pc' = "write"
    /\ UNCHANGED <<rawDirs, rawFiles, rawWidth, disk, dirs, index, overwrite,
                   splits, todo, last, err, index0, wroteRun, prevRet, runs, acc,
                   got>>
    /\ UNCHANGED transVars

\* main, line 116: write_split_file(args.split_file, splits).
WriteSplitFile ==
    /\ pc = "write"
    /\ index' = [exists |-> TRUE, data |-> Payload(splits)]
    /\ pc' = "done"
    /\ UNCHANGED <<rawDirs, rawFiles, rawWidth, disk, dirs, overwrite, splits,
                   todo, last, err, index0, wroteRun, prevRet, runs, acc, got>>
    /\ UNCHANGED transVars

\* The command is run again on the same raw directory.
Rerun ==
    /\ pc \in {"done", "failed"}
    /\ runs < MaxRuns
    /\ runs' = runs + 1
    /\ overwrite' \in BOOLEAN
    /\ pc' = "start"
    /\ prevRet' = IF pc = "done" THEN splits ELSE prevRet
    /\ index0' = index
    /\ wroteRun' = {}
    /\ splits' = NoRet
    /\ todo' = <<>>
    /\ last' = NoCall
    /\ err' = "none"
    /\ acc' = NoAcc
    /\ got' = NoGot
    /\ UNCHANGED <<rawDirs, rawFiles, rawWidth, disk, dirs, index>>
    /\ UNCHANGED transVars

----------------------------------------------------------------------------
(* The Dataset Accessor: dataset.py *)

\* Variant of ListIndex: the index taken modulo the length.
ListIndexWrap(files, idx) ==
    IF Len(files) = 0 THEN [ok |-> FALSE, name |-> <<>>]
    ELSE [ok |-> TRUE, name |-> files[(idx % Len(files)) + 1]]

\* self.files[idx] on a Python list: a negative idx counts from the end, and
\* an idx outside [-len, len) raises IndexError.
ListIndex(files, idx) ==
    LET n == Len(files)
        k == IF idx < 0 THEN idx + n ELSE idx
    IN  IF k < 0 \/ k >= n
        THEN [ok |-> FALSE, name |-> <<>>]
        ELSE [ok |-> TRUE, name |-> files[k + 1]]

\* CityscapesDataset(root, split, split_index) with {root}/processed the
\* directory the Splitter wrote to, once a split index file exists and no run
\* of the command is under way.
Construct ==
    /\ pc \in {"done", "failed"}
    /\ index.exists
    /\ acc = NoAcc
    /\ \E s \in {"train", "val"} :
           /\ s \in DOMAIN index.data
           /\ acc' = [split |-> s, files |-> index.data[s]]
    /\ got' = NoGot
    /\ UNCHANGED <<rawDirs, rawFiles, rawWidth, disk, dirs, index, overwrite,
                   pc, splits, todo, last, err, index0, wroteRun, prevRet, runs>>
    /\ UNCHANGED transVars

\* __getitem__(idx): the name, its stem, the two paths, the two opens.
GetItem ==
    /\ acc # NoAcc
    /\ \E idx \in -MaxIdx..MaxIdx :
           LET r == ListIndex(acc.files, idx)
               stem == Stem(r.name)
           IN  got' =
                   IF ~r.ok THEN [kind |-> "IndexError", idx |-> idx, name |-> <<>>]
                   ELSE IF PhotoPath(acc.split, stem) \notin disk
                           \/ LabelPath(acc.split, stem) \notin disk
                   THEN [kind |-> "FileNotFoundError", idx |-> idx, name |-> r.name]
                   ELSE [kind |-> "record", idx |-> idx, name |-> r.name]
    /\ UNCHANGED <<rawDirs, rawFiles, rawWidth, disk, dirs, index, overwrite,
                   pc, splits, todo, last, err, index0, wroteRun, prevRet, runs,
                   acc>>
    /\ UNCHANGED transVars

----------------------------------------------------------------------------
(* The preprocessing command and the accessor, from any prior state *)

TransIdle ==
    /\ tcfg = [image_size |-> 0, jitter |-> FALSE, horizontal_flip |-> FALSE,
               normalize_mode |-> "tanh"]
    /\ tin = <<0, 0>>
    /\ tpc = "idle"
    /\ label = [size |-> <<0, 0>>, box |-> <<0, 0, 0, 0>>, flipped |-> FALSE]
    /\ photo = [size |-> <<0, 0>>, box |-> <<0, 0, 0, 0>>, flipped |-> FALSE]
    /\ cropDraws = 0
    /\ flipDraws = 0

Init ==
    /\ rawDirs \in SUBSET {"train", "val"}
    /\ rawFiles \in SUBSET { f \in Universe : f[1] \in rawDirs }
    /\ rawWidth \in [rawFiles -> Widths]
    /\ disk \in SUBSET ProcPaths
    /\ dirs = { Parent(p) : p \in disk }
    /\ index = NoFile
    /\ overwrite \in BOOLEAN
    /\ pc = "start"
    /\ splits = NoRet
    /\ todo = <<>>
    /\ last = NoCall
    /\ err = "none"
    /\ index0 = index
    /\ wroteRun = {}
    /\ prevRet = NoRet
    /\ runs = 1
    /\ acc = NoAcc
    /\ got = NoGot
    /\ TransIdle

Next ==
    \/ CollectStep
    \/ SplitStep
    \/ ProcessReturn
    \/ WriteSplitFile
    \/ Rerun
    \/ Construct
    \/ GetItem

Spec == Init /\ [][Next]_vars

----------------------------------------------------------------------------
(* The paired transform: transforms.py *)

\* An input image's sides are 1 .. MaxSide pixels.
MaxSide == 2
\* image_size ranges over JitterSize - MaxSlack .. JitterSize + 1.
MaxSlack == 1

\* The size both images are resized to before the random crop.
JitterSize == 286

ImageSizes == (JitterSize - MaxSlack)..(JitterSize + 1)
InputSizes == (1..MaxSide) \X (1..MaxSide)
NormalizeModes == {"tanh", "01", "other"}

NoBox == <<0, 0, 0, 0>>
Image(wh) == [size |-> wh, box |-> NoBox, flipped |-> FALSE]

\* F.resize(img, size) with an int size: the shorter side becomes size and
\* the longer int(size * long / short).
Resize(wh, size) ==
    IF wh[1] <= wh[2]
    THEN <<size, (size * wh[2]) \div wh[1]>>
    ELSE <<(size * wh[1]) \div wh[2], size>>

\* transforms.RandomCrop.get_params(img, (th, tw)): every (i, j, h, w) it can
\* return; none when the image is smaller than the crop (it raises).
GetParams(wh, th, tw) ==
    LET w == wh[1]
        h == wh[2]
    IN  IF h < th \/ w < tw THEN {}
        ELSE IF w = tw /\ h = th THEN { <<0, 0, h, w>> }
        ELSE { <<i, j, th, tw>> : i \in 0..(h - th), j \in 0..(w - tw) }

\* F.crop(img, i, j, h, w)
Crop(img, box) == [img EXCEPT !.size = <<box[4], box[3]>>, !.box = box]

\* _random_crop_pair: one get_params call on the photo, both images cropped
\* with its result.
RandomCropPair(lab, pho, size) ==
    { <<Crop(lab, b), Crop(pho, b)>> : b \in GetParams(pho.size, size, size) }

\* F.hflip(img)
HFlip(img) == [img EXCEPT !.flipped = ~img.flipped]

\* normalize_photo raises ValueError for a mode other than tanh and 01.
NormalizeFails(mode) == mode \notin {"tanh", "01"}

\* _transform, lines 59-65: both images resized to the same target.
TResize ==
    /\ tpc = "start"
    /\ LET target == IF tcfg.jitter THEN JitterSize ELSE tcfg.image_size
       IN  /\ label' = [label EXCEPT !.size = Resize(label.size, target)]
           /\ photo' = [photo EXCEPT !.size = Resize(photo.size, target)]
    /\ tpc' = IF tcfg.jitter THEN "crop" ELSE "flip"
    /\ UNCHANGED <<tcfg, tin, cropDraws, flipDraws>>
    /\ UNCHANGED prepVars

\* _transform, line 62: the random crop of the jitter branch.
TCrop ==
    /\ tpc = "crop"
    /\ cropDraws' = cropDraws + 1
    /\ IF RandomCropPair(label, photo, tcfg.image_size) = {}
       THEN /\ tpc' = "error"
            /\ UNCHANGED <<label, photo>>
       ELSE /\ \E pair \in RandomCropPair(label, photo, tcfg.image_size) :
                   /\ label' = pair[1]
                   /\ photo' = pair[2]
            /\ tpc' = "flip"
    /\ UNCHANGED <<tcfg, tin, flipDraws>>
    /\ UNCHANGED prepVars

\* Variant of TFlip: the label and the photo are flipped on separate draws.
TFlipTwoDraws ==
    /\ tpc = "flip"
    /\ IF tcfg.horizontal_flip
       THEN /\ flipDraws' = flipDraws + 1
            /\ \E belowLabel, belowPhoto \in BOOLEAN :
                   /\ label' = IF belowLabel THEN HFlip(label) ELSE label
                   /\ photo' = IF belowPhoto THEN HFlip(photo) ELSE photo
       ELSE UNCHANGED <<flipDraws, label, photo>>
    /\ tpc' = "tensor"
    /\ UNCHANGED <<tcfg, tin, cropDraws>>
    /\ UNCHANGED prepVars

\* _transform, lines 68-70: random.random() is called only when
\* horizontal_flip is set, once, and decides for both images.
TFlip ==
    /\ tpc = "flip"
    /\ IF tcfg.horizontal_flip
       THEN /\ flipDraws' = flipDraws + 1
            /\ \E below \in BOOLEAN :
                   IF below
                   THEN /\ label' = HFlip(label)
                        /\ photo' = HFlip(photo)
                   ELSE UNCHANGED <<label, photo>>
       ELSE UNCHANGED <<flipDraws, label, photo>>
    /\ tpc' = "tensor"
    /\ UNCHANGED <<tcfg, tin, cropDraws>>
    /\ UNCHANGED prepVars

\* _transform, lines 73-79: to_tensor keeps the spatial size; normalize_photo.
TConvert ==
    /\ tpc = "tensor"
    /\ tpc' = IF NormalizeFails(tcfg.normalize_mode) THEN "error" ELSE "done"
    /\ UNCHANGED <<tcfg, tin, label, photo, cropDraws, flipDraws>>
    /\ UNCHANGED prepVars

\* The function is called again, on another pair of same-size images.
TCall ==
    /\ tpc \in {"done", "error"}
    /\ \E wh \in InputSizes :
           /\ tin' = wh
           /\ label' = Image(wh)
           /\ photo' = Image(wh)
    /\ tpc' = "start"
    /\ cropDraws' = 0
    /\ flipDraws' = 0
    /\ UNCHANGED tcfg
    /\ UNCHANGED prepVars

PrepIdle ==
    /\ rawDirs = {}
    /\ rawFiles = {}
    /\ rawWidth = <<>>
    /\ disk = {}
    /\ dirs = {}
    /\ index = NoFile
    /\ overwrite = FALSE
    /\ pc = "idle"
    /\ splits = NoRet
    /\ todo = <<>>
    /\ last = NoCall
    /\ err = "none"
    /\ index0 = NoFile
    /\ wroteRun = {}
    /\ prevRet = NoRet
    /\ runs = 0
    /\ acc = NoAcc
    /\ got = NoGot

InitT ==
    /\ tcfg \in [image_size : ImageSizes, jitter : BOOLEAN,
                 horizontal_flip : BOOLEAN, normalize_mode : NormalizeModes]
    /\ tin \in InputSizes
    /\ label = Image(tin)
    /\ photo = Image(tin)
    /\ tpc = "start"
    /\ cropDraws = 0
    /\ flipDraws = 0
    /\ PrepIdle

NextT ==
    \/ TResize
    \/ TCrop
    \/ TFlip
    \/ TConvert
    \/ TCall

SpecT == InitT /\ [][NextT]_vars

----------------------------------------------------------------------------
(* Properties of the Dataset Accessor and the Splitter, under Spec *)

BothPaths(split, name) ==
    { PhotoPath(split, Stem(name)), LabelPath(split, Stem(name)) }

\* Every raw source file has both of its processed files on disk.
AllProcessed == \A f \in rawFiles : BothPaths(f[1], f[2]) \subseteq disk

LastOdd ==
    /\ last.outcome # "none"
    /\ rawWidth[<<last.split, last.name>>] % 2 # 0

LastReturned == last.outcome \in {"ok", "skipped"}

\* C1 as stated: an indexed access with idx outside [0, n), every negative idx
\* included, ends in an index-range error.
C1_OutsideZeroToLenFails ==
    (got.kind # "none" /\ (got.idx < 0 \/ got.idx >= Len(acc.files)))
        => got.kind = "IndexError"

\* C1, amended: an indexed access with idx outside [-n, n) ends in an
\* index-range error and returns no record, and an access with idx in [-n, -1]
\* does not: it resolves to the filename at position n + idx.
C1_OutsideListRangeFails ==
    got.kind # "none" =>
        LET n == Len(acc.files)
        IN  /\ (got.idx < -n \/ got.idx >= n) => got.kind = "IndexError"
            /\ (got.idx >= -n /\ got.idx < 0) =>
                   /\ got.kind # "IndexError"
                   /\ got.name = acc.files[n + got.idx + 1]
            /\ (got.idx >= 0 /\ got.idx < n) =>
                   /\ got.kind # "IndexError"
                   /\ got.name = acc.files[got.idx + 1]

C1_Witness ==
    /\ got.kind = "IndexError"
    /\ got.idx < 0
    /\ Len(acc.files) = 2

\* C3 as stated: split_and_save of a source of odd width fails with the
\* malformed-input error, whatever overwrite is and whichever destination
\* files exist.
C3_OddWidthAlwaysRejected ==
    LastOdd => last.outcome = "rejected"

\* C3, amended: split_and_save of a source of odd width fails with the
\* malformed-input error unless overwrite is false and both destination files
\* already exist; then it returns without opening the source.
C3_OddWidthRejectedUnlessSkipped ==
    LastOdd =>
        IF ~overwrite /\ last.prePhoto /\ last.preLabel
        THEN last.outcome = "skipped" /\ ~last.opened
        ELSE last.outcome = "rejected"

C3_Witness ==
    /\ LastOdd
    /\ last.outcome = "rejected"
    /\ ~overwrite
    /\ last.prePhoto # last.preLabel

\* C4: process_dataset with overwrite false, on a raw directory whose every
\* source has both processed files, creates, rewrites and removes no processed
\* file or directory, skips every source, and returns the mapping the earlier
\* run returned.
C4_RerunIsNoOp ==
    [][ (pc = "split" /\ ~overwrite /\ AllProcessed) =>
            /\ disk' = disk
            /\ dirs' = dirs
            /\ wroteRun' = wroteRun
            /\ pc' # "failed"
            /\ todo # <<>> => (last'.outcome = "skipped" /\ last'.wrote = {})
            /\ (pc' = "write" /\ prevRet # NoRet) => splits = prevRet ]_vars

C4_Witness ==
    /\ runs = 2
    /\ pc = "done"
    /\ ~overwrite
    /\ prevRet # NoRet
    /\ splits = prevRet
    /\ last.outcome = "skipped"
    /\ wroteRun = {}
    /\ AllProcessed

NoDuplicates(seq) ==
    \A i, j \in 1..Len(seq) : i # j => seq[i] # seq[j]

Ascending(seq) ==
    \A i \in 1..(Len(seq) - 1) : LexLess(seq[i], seq[i + 1])

\* C5 as stated: the train and val lists of the split index together hold
\* every source filename exactly once, with no filename twice within a list or
\* across the two lists.
C5_NoNameTwiceAcrossLists ==
    index.exists => NoDuplicates(index.data["train"] \o index.data["val"])

\* C5, amended: each list of the split index holds the filenames of its own
\* split directory, each exactly once, in collect_files' ascending order; a
\* filename that both split directories hold is in both lists.
C5_EachListMatchesItsSplit ==
    index.exists =>
        \A s \in {"train", "val"} :
            /\ Ascending(index.data[s])
            /\ NoDuplicates(index.data[s])
            /\ { index.data[s][i] : i \in 1..Len(index.data[s]) } = NamesIn(s)
            /\ pc = "done" =>
                   /\ Len(index.data[s]) = Len(splits[s])
                   /\ \A i \in 1..Len(splits[s]) :
                          splits[s][i] = <<s, index.data[s][i]>>

C5_Witness ==
    /\ pc = "done"
    /\ index.exists
    /\ Len(index.data["train"]) = 2
    /\ \E i \in 1..Len(index.data["train"]) :
           index.data["train"][i] = index.data["val"][1]

\* C7: after a run of the command has completed, every filename of either
\* list of the split index has its photo file and its label file on disk, and
\* an indexed access with idx in [0, len) returns a record.
C7_IndexedFilesOnDisk ==
    /\ (pc = "done" /\ index.exists) =>
           \A s \in {"train", "val"} :
               \A i \in 1..Len(index.data[s]) :
                   BothPaths(s, index.data[s][i]) \subseteq disk
    /\ (got.kind # "none" /\ got.idx >= 0 /\ got.idx < Len(acc.files)) =>
           got.kind = "record"

C7_Witness ==
    /\ pc = "done"
    /\ runs = 1
    /\ acc.split = "train"
    /\ got.kind = "record"
    /\ got.idx = 1
    /\ wroteRun # {}

\* C8 as stated: whenever a split_and_save call ends, by returning or by
\* raising, that call wrote both destination files or neither.
C8_BothOrNeitherWritten ==
    last.outcome # "none" =>
        (last.wrote = {} \/ last.wrote = BothPaths(last.split, last.name))

\* C8, amended: a split_and_save call that returns wrote both destination
\* files or neither; a call rejected for odd width created no directory and
\* wrote no file; a call that fails in the label write has written the photo
\* and not the label.
C8_ReturnedBothOrNeither ==
    /\ last.outcome = "ok" =>
           /\ last.wrote = BothPaths(last.split, last.name)
           /\ last.wrote \subseteq disk
    /\ last.outcome = "skipped" => last.wrote = {}
    /\ last.outcome = "rejected" =>
           /\ last.wrote = {}
           /\ dirs = last.preDirs
           /\ (PhotoPath(last.split, Stem(last.name)) \in disk) = last.prePhoto
           /\ (LabelPath(last.split, Stem(last.name)) \in disk) = last.preLabel
    /\ last.outcome = "label_failed" =>
           last.wrote = { PhotoPath(last.split, Stem(last.name)) }
    /\ last.outcome = "photo_failed" => last.wrote = {}

C8_Witness ==
    /\ last.outcome = "rejected"
    /\ ~last.prePhoto
    /\ ~last.preLabel
    /\ Parent(PhotoPath(last.split, Stem(last.name))) \notin dirs
    /\ Parent(LabelPath(last.split, Stem(last.name))) \notin dirs

\* C9: with overwrite false and exactly one of the two destination files
\* present, a split_and_save call is not skipped, and if it returns it has
\* written both files and both exist; a call is skipped only when both files
\* existed before it.
C9_OneFilePresentIsRewritten ==
    /\ (last.outcome # "none" /\ ~overwrite /\ last.prePhoto # last.preLabel) =>
           /\ last.outcome # "skipped"
           /\ last.opened
           /\ LastReturned =>
                  /\ last.wrote = BothPaths(last.split, last.name)
                  /\ BothPaths(last.split, last.name) \subseteq disk
    /\ last.outcome = "skipped" => (last.prePhoto /\ last.preLabel /\ ~overwrite)

C9_Witness ==
    /\ last.outcome = "ok"
    /\ ~overwrite
    /\ last.prePhoto
    /\ ~last.preLabel
    /\ BothPaths(last.split, last.name) \subseteq disk

\* C10: the split index file changes only in write_split_file, which runs
\* once split_and_save has returned for every collected source; a run that
\* fails leaves the split index file as it was when the run began, and no
\* step removes a processed file, so what the run saved before failing stays.
C10_IndexWrittenLast ==
    [][ /\ index' # index => (pc = "write" /\ todo = <<>> /\ pc' = "done")
        /\ pc' = "write" => todo' = <<>>
        /\ pc' = "failed" => (index' = index0' /\ wroteRun' \subseteq disk')
        /\ disk \subseteq disk' ]_vars

C10_Witness ==
    /\ pc = "failed"
    /\ err = "ValueError"
    /\ wroteRun # {}
    /\ wroteRun \subseteq disk
    /\ ~index.exists

----------------------------------------------------------------------------
(* Properties of the paired transform, under SpecT *)

\* C2: every call of the paired transform that returns gives a label and a
\* photo of the same spatial size, image_size x image_size, whatever jitter
\* and horizontal_flip are and whether or not the inputs are square.
C2_OutputsAreImageSizeSquare ==
    tpc = "done" =>
        /\ label.size = photo.size
        /\ photo.size = <<tcfg.image_size, tcfg.image_size>>

\* C6: in every call of the paired transform get_params is called once when
\* jitter is on and never otherwise, random.random is called once when
\* horizontal_flip is on and never otherwise, the label is cropped with the
\* box the photo is cropped with, and the label is flipped exactly when the
\* photo is.
C6_CropAndFlipShared ==
    /\ tpc \in {"flip", "tensor", "done"} =>
           /\ label.box = photo.box
           /\ label.size = photo.size
           /\ cropDraws = (IF tcfg.jitter THEN 1 ELSE 0)
           /\ tcfg.jitter =>
                  /\ photo.box[3] = tcfg.image_size
                  /\ photo.box[4] = tcfg.image_size
           /\ ~tcfg.jitter => photo.box = NoBox
    /\ tpc \in {"tensor", "done"} =>
           /\ label.flipped = photo.flipped
           /\ flipDraws = (IF tcfg.horizontal_flip THEN 1 ELSE 0)
           /\ ~tcfg.horizontal_flip => ~photo.flipped

C6_Witness ==
    /\ tpc = "done"
    /\ tcfg.jitter
    /\ tcfg.horizontal_flip
    /\ photo.flipped
    /\ label.flipped
    /\ photo.box[1] > 0
    /\ photo.box[2] > 0
    /\ label.box = photo.box

====
